---------------------------- MODULE Spec2Model ----------------------------
(***************************************************************************)
(* Tagsistant Resilient Data Sets (src/src/rds.c).                         *)
(*                                                                         *)
(* The model follows rds.c statement by statement: every call of           *)
(* tagsistant_query() is one atomic step of the calling thread, the RDS    *)
(* mutex is a lock variable, and the query tree is a heap of               *)
(* qtree_and_node records linked by next / related / negated pointers.     *)
(***************************************************************************)
EXTENDS Integers, Sequences, FiniteSets, Bags, TLC

(***************************************************************************)
(* Bounds of the model.                                                    *)
(***************************************************************************)
\* number of rows RDS_catalog may ever receive (caps the auto_increment)
MaxRdsId == 2
\* number of tagging rows the environment may add to the tags/objects catalog
MaxTaggings == 1
\* number of rows RDS_catalog may receive from the single caller
SeqMaxRdsId == 2
\* number of rows RDS_catalog may receive from the two racing callers
RaceMaxRdsId == 3
\* number of rows RDS_catalog may receive while statements may fail
FailMaxRdsId == 2
\* number of statements that may fail
MaxFailures == 2
\* number of rows RDS_catalog may receive from the callers of the triple
\* and of the four tags
KeyMaxRdsId == 2
\* number of rows RDS_catalog may receive while a caller tags an object and
\* invalidates
InvalMaxRdsId == 2
\* number of rows RDS_catalog may receive while objects are created
MknodMaxRdsId == 2

Threads == {1, 2}

\* (char *) NULL; g_string_append_printf renders a NULL %s as "(null)"
NULL == "(null)"

(***************************************************************************)
(* The tags/objects catalog read by the build statements.                  *)
(***************************************************************************)
\* objects(inode, objectname)
Objects == { [inode |-> 1, objectname |-> "x"],
             [inode |-> 2, objectname |-> "y"],
             [inode |-> 3, objectname |-> "x"],
             [inode |-> 4, objectname |-> "z"] }

\* tags(tag_id, tagname, key, value)
Tags == { [tag_id |-> 1, tagname |-> "red",    key |-> "",     value |-> ""],
          [tag_id |-> 2, tagname |-> "big",    key |-> "",     value |-> ""],
          [tag_id |-> 3, tagname |-> "blue",   key |-> "",     value |-> ""],
          [tag_id |-> 4, tagname |-> "sky",    key |-> "",     value |-> ""],
          [tag_id |-> 5, tagname |-> "author", key |-> "name", value |-> "Tx0"],
          [tag_id |-> 6, tagname |-> "author", key |-> "name", value |-> "Tx"] }

\* tagging(inode, tag_id) at start: red = {1,2}, big = {2,3}, blue = {3},
\* sky = {1}, author/name/Tx0 = {3}, author/name/Tx = {2}
InitTagging == { <<1, 1>>, <<2, 1>>, <<2, 2>>, <<3, 2>>, <<3, 3>>, <<1, 4>>,
                 <<3, 5>>, <<2, 6>> }

\* the tagging rows object creation may add
NewTaggings == { <<3, 1>> }

\* the object and the tag of the paths mknod is called on: store/red/@/z
MknodTargets == { <<4, 1>> }

\* errno.h
EFAULT == 14
EROFS == 30
\* the errors tagging an object ends with (EIO, ENOMEM) and the errors of
\* mknod(2) (EACCES, EEXIST)
TaggingErrors == { 5, 12 }
MknodErrors == { 13, 17 }

(***************************************************************************)
(* String comparison of the SQL engine on the values in use:               *)
(* a string is the sequence of its characters.                             *)
(***************************************************************************)
Chars(s) ==
    CASE s = "Tx0" -> <<"T", "x", "0">>
      [] s = "Tx"  -> <<"T", "x">>
      [] s = "x"   -> <<"x">>
      [] s = ""    -> <<>>
      [] OTHER     -> <<s>>

Ord(c) == CASE c = "0" -> 48 [] c = "T" -> 84 [] c = "x" -> 120 [] OTHER -> 0

\* value like '%pat%'
SqlLike(v, pat) ==
    LET a == Chars(v)
        b == Chars(pat)
    IN  \E i \in 0..Len(a) :
            /\ i + Len(b) <= Len(a)
            /\ \A j \in 1..Len(b) : a[i + j] = b[j]

\* v < w, compared character by character
SqlLess(v, w) ==
    LET a == Chars(v)
        b == Chars(w)
        m == IF Len(a) < Len(b) THEN Len(a) ELSE Len(b)
    IN  \/ \E i \in 1..m :
              /\ \A j \in 1..(i - 1) : a[j] = b[j]
              /\ Ord(a[i]) < Ord(b[i])
        \/ /\ Len(a) < Len(b)
           /\ \A j \in 1..Len(a) : a[j] = b[j]

(***************************************************************************)
(* The query tree: a heap of qtree_and_node, 0 is the NULL pointer.        *)
(***************************************************************************)
Node(tag_id, tag, ns, key, op, value, next, related, negated) ==
    [tag_id |-> tag_id, tag |-> tag, namespace |-> ns, key |-> key,
     operator |-> op, value |-> value,
     next |-> next, related |-> related, negated |-> negated]

ByName(tag, next, related, negated) ==
    Node(0, tag, NULL, NULL, "NONE", NULL, next, related, negated)

Triple(ns, key, op, value, next, related, negated) ==
    Node(0, NULL, ns, key, op, value, next, related, negated)

Heap ==
    <<  ByName("red", 0, 0, 0),                           \*  1  red
        ByName("red", 3, 0, 0),                           \*  2  red/big
        ByName("big", 0, 0, 0),                           \*  3
        ByName("blue", 0, 5, 0),                          \*  4  blue (related: sky)
        ByName("sky", 0, 0, 0),                           \*  5
        ByName("red", 0, 0, 7),                           \*  6  red/-/big
        ByName("big", 0, 0, 0),                           \*  7
        ByName("red", 0, 0, 9),                           \*  8  red/-/big/-/blue
        ByName("big", 0, 0, 10),                          \*  9
        ByName("blue", 0, 11, 0),                         \* 10  (related: sky)
        ByName("sky", 0, 0, 0),                           \* 11
        Triple("author", "name", "EQUAL_TO", "Tx0", 0, 0, 0),      \* 12
        Triple("author", "name", "CONTAINS", "x", 14, 0, 0),       \* 13
        Triple("author", "name", "GREATER_THAN", "Tx", 0, 0, 0),   \* 14
        Triple("author", "name", "SMALLER_THAN", "Tx0", 0, 0, 0),  \* 15
        Node(2, "big", NULL, NULL, "NONE", NULL, 0, 0, 0),         \* 16  big, tag_id known
        ByName("big", 18, 0, 19),                         \* 17  big/blue/-/red
        ByName("blue", 0, 5, 0),                          \* 18  (related: sky)
        ByName("red", 0, 0, 0),                           \* 19
        ByName("author", 21, 0, 0),                       \* 20  author/name/eq/Tx0
        ByName("name", 22, 0, 0),                         \* 21    as four plain tags
        ByName("eq", 23, 0, 0),                           \* 22
        ByName("Tx0", 0, 0, 0)                            \* 23
    >>

\* a qtree_or_node chain, written as the sequence of its and_set pointers;
\* the empty sequence is the NULL query

\* the queries of the second caller, who interferes with the first
OtherQueries == { <<1>> }

\* the query two racing callers share: store/big/blue/-/red/@
RaceQueries == { <<17>> }

\* the queries of the paths mknod creates an object under: store/red/@ and
\* store/red/+/blue/@
MknodQueries == { <<1>>, <<1, 4>> }
\* the or-node chain of the querytree of store/<tag>/@/<object>
MknodTree(tag_id) == IF tag_id = 1 THEN <<1>> ELSE <<>>

\* the queries of two callers, one asking for the triple author/name/eq/Tx0
\* and one for the four tags author, name, eq and Tx0
KeyQueries == { <<12>>, <<20>> }

\* the query of the callers that tag an object and invalidate: store/red/@
InvalQueries == { <<1>> }

\* the queries of the caller whose statements may fail
FailQueries == { <<1>>, <<17>> }

\* the queries of the first of the concurrent callers
Queries ==
    { <<1>>,        \* store/red/@
      <<1, 17>>,    \* store/red/+/big/blue/-/red/@
      <<1, 1>>,     \* store/red/+/red/@
      <<>> }

\* the queries of the single caller
SeqQueries ==
    { <<1>>, <<2>>, <<4>>, <<6>>, <<8>>, <<12>>, <<13>>, <<15>>, <<16>>, <<17>>,
      <<1, 4>>,     \* store/red/+/blue/@
      <<6, 8>>,     \* store/red/-/big/+/red/-/big/-/blue/@
      <<>> }

\* the tags/objects catalogs the single caller may find
SeqTaggings ==
    { InitTagging,
      InitTagging \cup { <<3, 1>> },
      InitTagging \cup { <<1, 3>>, <<1, 6>> } }

(***************************************************************************)
(* tagsistant_RDS_subquery_add_tag / tagsistant_RDS_build_subquery.        *)
(* A subquery string is the sequence of its "/"-terminated path elements.  *)
(***************************************************************************)
OperatorName(op) ==
    CASE op = "EQUAL_TO"     -> <<"eq">>
      [] op = "CONTAINS"     -> <<"inc">>
      [] op = "GREATER_THAN" -> <<"gt">>
      [] op = "SMALLER_THAN" -> <<"lt">>
      [] OTHER               -> <<>>

tagsistant_RDS_subquery_add_tag(subquery, node, negated) ==
    LET s == IF negated THEN subquery \o <<"-">> ELSE subquery
    IN  IF node.tag # NULL
        THEN s \o <<node.tag>>
        ELSE s \o <<node.namespace, node.key>> \o OperatorName(node.operator)
               \o <<node.value>>

RECURSIVE SubqueryMain(_, _)
SubqueryMain(subquery, node_ptr) ==
    IF node_ptr = 0 THEN subquery
    ELSE SubqueryMain(tagsistant_RDS_subquery_add_tag(subquery, Heap[node_ptr], FALSE),
                      Heap[node_ptr].next)

\* the inner loop of the second pass: it steps with negated->next
RECURSIVE SubqueryNegatedChain(_, _)
SubqueryNegatedChain(subquery, negated) ==
    IF negated = 0 THEN subquery
    ELSE SubqueryNegatedChain(tagsistant_RDS_subquery_add_tag(subquery, Heap[negated], TRUE),
                              Heap[negated].next)

RECURSIVE SubqueryNegated(_, _)
SubqueryNegated(subquery, node_ptr) ==
    IF node_ptr = 0 THEN subquery
    ELSE SubqueryNegated(SubqueryNegatedChain(subquery, Heap[node_ptr].negated),
                         Heap[node_ptr].next)

tagsistant_RDS_build_subquery(and_set) ==
    SubqueryNegated(SubqueryMain(<<>>, and_set), and_set)

(***************************************************************************)
(* tagsistant_query_add_and_set: the criterion one node adds to a WHERE    *)
(* clause, evaluated on one row of objects JOIN tagging JOIN tags.         *)
(***************************************************************************)
\* the node makes tagsistant_query_add_and_set append a criterion at all
HasCriterion(n) ==
    \/ n.tag_id # 0
    \/ n.tag # NULL
    \/ /\ n.value # NULL
       /\ n.operator \in {"EQUAL_TO", "CONTAINS", "GREATER_THAN", "SMALLER_THAN"}

tagsistant_query_add_and_set(n, row) ==
    IF n.tag_id # 0 THEN row.tag_id = n.tag_id
    ELSE IF n.tag # NULL THEN row.tagname = n.tag
    ELSE IF n.value # NULL THEN
        CASE n.operator = "EQUAL_TO" ->
                row.tagname = n.namespace /\ row.key = n.key /\ row.value = n.value
          [] n.operator = "CONTAINS" ->
                row.tagname = n.namespace /\ row.key = n.key /\ SqlLike(row.value, n.value)
          [] n.operator = "GREATER_THAN" ->
                row.tagname = n.namespace /\ row.key = n.key /\ SqlLess(n.value, row.value)
          [] n.operator = "SMALLER_THAN" ->
                row.tagname = n.namespace /\ row.key = n.key /\ SqlLess(row.value, n.value)
          [] OTHER -> FALSE
    ELSE FALSE

\* a node and the nodes reached from it by ->related
RECURSIVE RelatedChain(_)
RelatedChain(ptr) ==
    IF ptr = 0 THEN {} ELSE {ptr} \cup RelatedChain(Heap[ptr].related)

\* the statement text is well formed only if every node added a criterion
WellFormed(ptr) == \A r \in RelatedChain(ptr) : HasCriterion(Heap[r])

\* WHERE P(node) [ or P(node->related) ... ]
Where(ptr, row) ==
    \E r \in RelatedChain(ptr) : tagsistant_query_add_and_set(Heap[r], row)

\* objects join tagging on inode join tags on tag_id
JoinRows(tg) ==
    { [inode |-> o.inode, objectname |-> o.objectname, tag_id |-> t.tag_id,
       tagname |-> t.tagname, key |-> t.key, value |-> t.value] :
        <<o, t>> \in { x \in Objects \X Tags : <<x[1].inode, x[2].tag_id>> \in tg } }

\* select objects.inode from objects join tagging join tags where ...
SelectInodes(ptr, tg) ==
    { row.inode : row \in { r \in JoinRows(tg) : Where(ptr, r) } }

RdsRow(id, inode, objectname) ==
    [rds_id |-> id, inode |-> inode, objectname |-> objectname]

\* PHASE 2: insert into RDS select rds_id, inode, objectname ... where ...
\* (one row for every joined row that matches)
Phase2Insert(rds, id, ptr, tg) ==
    IF ~WellFormed(ptr) THEN rds
    ELSE LET hits == { r \in JoinRows(tg) : Where(ptr, r) }
             new  == { RdsRow(id, r.inode, r.objectname) : r \in hits }
             bag  == [ n \in new |->
                        Cardinality({ r \in hits : RdsRow(id, r.inode, r.objectname) = n }) ]
         IN  rds (+) bag

\* delete from RDS where ...: the bag without the rows in gone
DeleteRows(rds, gone) ==
    [ r \in DOMAIN rds \ gone |-> rds[r] ]

\* PHASE 3: delete from RDS where rds_id = id and inode not in (select ...)
Phase3Delete(rds, id, ptr, tg) ==
    IF ~WellFormed(ptr) THEN rds
    ELSE DeleteRows(rds, { r \in DOMAIN rds :
                              r.rds_id = id /\ r.inode \notin SelectInodes(ptr, tg) })

\* PHASE 4: delete from RDS where rds_id = id and inode in (select ...)
Phase4Delete(rds, id, ptr, tg) ==
    IF ~WellFormed(ptr) THEN rds
    ELSE DeleteRows(rds, { r \in DOMAIN rds :
                              r.rds_id = id /\ r.inode \in SelectInodes(ptr, tg) })

\* PHASE 4 traversal: the first (main node, negated node) at or after main
RECURSIVE FirstNegated(_)
FirstNegated(main) ==
    IF main = 0 THEN <<0, 0>>
    ELSE IF Heap[main].negated # 0 THEN <<main, Heap[main].negated>>
    ELSE FirstNegated(Heap[main].next)

\* the negated chain walked by ->next, as tagsistant_RDS_build_subquery walks it
NextNegatedByNext(main, negated) ==
    IF Heap[negated].next # 0 THEN <<main, Heap[negated].next>>
    ELSE FirstNegated(Heap[main].next)

\* ... and the one after (main, negated): negated = negated->negated,
\* then next = next->next
NextNegated(main, negated) ==
    IF Heap[negated].negated # 0 THEN <<main, Heap[negated].negated>>
    ELSE FirstNegated(Heap[main].next)

(***************************************************************************)
(* The state.                                                              *)
(***************************************************************************)
VARIABLES
    RDS_catalog,            \* set of [rds_id, subquery, expired]
    RDS,                    \* bag of [rds_id, inode, objectname]
    last_insert_id,         \* the auto_increment sequence of RDS_catalog
    tagsistant_RDS_mutex,   \* 0 (free) or the thread that holds it
    tagging,                \* the tagging table: set of <<inode, tag_id>>
    pc,                     \* where each thread is
    query,                  \* argument of prepare: the or-node chain
    qpos,                   \* the or-node `query` points to (index in the chain)
    is_all_path,
    rebuild_expired_RDS,
    sql_error,              \* a statement of the running prepare failed (its result is dropped)
    rds_id,                 \* local of prepare / build
    RDS_ids,                \* local of prepare: the ids collected so far
    next,                   \* local of build: main chain pointer
    negated,                \* local of build: negated chain pointer
    RDS_fingerprint,        \* what prepare returned (<<>> is NULL)
    file_hash,              \* what load returned
    exists,                 \* what contains_object returned
    \* history, written by the steps and read by no step
    catalog_at_call,        \* the catalog rows of the query's subqueries when prepare was called
    built,                  \* the catalog rows this call of prepare inserted
    previous,               \* the fingerprint returned last, while no rebuilding prepare ran since
    loaded,                 \* per query, the rows load(prepare(query)) gave the single caller
    \* tagsistant_mknod
    res,                    \* local of mknod at MKNOD_EXIT
    tagsistant_errno,       \* local of mknod at MKNOD_EXIT
    returned,               \* what the last mknod returned
    archive,                \* the inodes that have a node on disk
    mknod_call,             \* history: the last call of mknod and what it attempted
    failures,               \* history: the number of statements that failed
    built_before            \* history: the ids of the entries built before a caller's change

tables == <<RDS_catalog, RDS, last_insert_id>>
locals == <<query, qpos, is_all_path, sql_error, rebuild_expired_RDS, rds_id, RDS_ids,
            next, negated, RDS_fingerprint, file_hash, exists>>
history == <<catalog_at_call, built, loaded>>
mknod_vars == <<res, tagsistant_errno, returned, archive, mknod_call>>
\* what no step of a statement that succeeds writes
rest == <<failures, mknod_vars, built_before>>
vars == <<RDS_catalog, RDS, last_insert_id, tagsistant_RDS_mutex, tagging, pc,
          query, qpos, is_all_path, rebuild_expired_RDS, rds_id, RDS_ids,
          next, negated, RDS_fingerprint, file_hash, exists,
          catalog_at_call, built, previous, loaded, sql_error,
          res, tagsistant_errno, returned, archive, mknod_call, failures,
          built_before>>

\* no load result yet
NoHash == [none |-> <<>>]
\* the queries whose load results are recorded
Recorded == { <<1>>, <<4>>, <<1, 4>>, <<6>>, <<8>>, <<6, 8>> }
NotLoaded == { <<"not loaded">> }

InitLocals ==
    /\ pc = [t \in Threads |-> "idle"]
    /\ query = [t \in Threads |-> <<>>]
    /\ qpos = [t \in Threads |-> 0]
    /\ is_all_path = [t \in Threads |-> FALSE]
    /\ sql_error = [t \in Threads |-> FALSE]
    /\ rebuild_expired_RDS = [t \in Threads |-> FALSE]
    /\ rds_id = [t \in Threads |-> 0]
    /\ RDS_ids = [t \in Threads |-> <<>>]
    /\ next = [t \in Threads |-> 0]
    /\ negated = [t \in Threads |-> 0]
    /\ RDS_fingerprint = [t \in Threads |-> <<>>]
    /\ file_hash = [t \in Threads |-> NoHash]
    /\ exists = [t \in Threads |-> 0]
    /\ catalog_at_call = [t \in Threads |-> {}]
    /\ built = [t \in Threads |-> {}]
    /\ previous = [t \in Threads |-> <<>>]
    /\ loaded = [q \in Recorded |-> NotLoaded]
    /\ built_before = [t \in Threads |-> {}]

InitTables ==
    /\ RDS_catalog = {}
    /\ RDS = EmptyBag
    /\ last_insert_id = 0
    /\ tagsistant_RDS_mutex = 0

\* no mknod was called; the objects of the catalog have their node on disk
NoCall == [malformed |-> FALSE, points_to_object |-> FALSE, taggable |-> FALSE,
           inode |-> 0, tag_id |-> 0, tree |-> <<>>, tag_errno |-> 0, sys_errno |-> 0,
           tagged |-> FALSE, attempted |-> FALSE]

InitMknod ==
    /\ res = 0
    /\ tagsistant_errno = 0
    /\ returned = 0
    /\ archive = { tg[1] : tg \in InitTagging }
    /\ mknod_call = NoCall
    /\ failures = 0

Init ==
    /\ InitTables
    /\ tagging = InitTagging
    /\ InitLocals
    /\ InitMknod

\* the and_set of the or-node thread t is working on, and its subquery
AndSet(t) == query[t][qpos[t]]

\* the subquery string of every and-set of the heap
SubqueryOf == [and_set \in DOMAIN Heap |-> tagsistant_RDS_build_subquery(and_set)]

Subquery(t) == SubqueryOf[AndSet(t)]

\* the subqueries of a query
Subqueries(q) == { SubqueryOf[q[i]] : i \in 1..Len(q) }

\* a step of a prepare that rebuilds ends the validity of the fingerprints
\* returned before it
Disturb(t) ==
    previous' = IF rebuild_expired_RDS[t] THEN [u \in Threads |-> <<>>] ELSE previous

(***************************************************************************)
(* tagsistant_RDS_prepare.                                                 *)
(***************************************************************************)
\* rows the catalog still has to receive for the calls in progress
PendingInserts(t) ==
    IF pc[t] \in {"lock", "fetch_delete_rds", "fetch_delete_catalog",
                  "fetch_select", "phase1"}
    THEN Len(query[t]) - qpos[t] + 1
    ELSE IF pc[t] \in {"phase2", "phase3", "phase4", "unlock"}
    THEN Len(query[t]) - qpos[t]
    ELSE 0

RECURSIVE SumPending(_)
SumPending(S) ==
    IF S = {} THEN 0
    ELSE LET t == CHOOSE x \in S : TRUE
         IN  PendingInserts(t) + SumPending(S \ {t})

\* a call that rebuilds is under way
InRebuild == \E u \in Threads : PendingInserts(u) > 0 /\ rebuild_expired_RDS[u]

\* the call fits in what is left of the catalog's ids
IdsLeft(q, max) == last_insert_id + SumPending(Threads) + Len(q) <= max

\* every subquery of the query has a catalog row, and no call is rebuilding:
\* the call inserts nothing
Cached(q) ==
    /\ ~InRebuild
    /\ \A i \in 1..Len(q) : \E c \in RDS_catalog : c.subquery = SubqueryOf[q[i]]

\* the NULL query alone returns early
BypassNullOnly(all, q) == q = <<>>

\* the early returns of prepare: the ALL/ meta-tag and the NULL query
Bypass(all, q) == all \/ q = <<>>

\* entry of tagsistant_RDS_prepare up to the first g_mutex_lock
EnterPrepare(t, q, all, rebuild) ==
    /\ query' = [query EXCEPT ![t] = q]
    /\ is_all_path' = [is_all_path EXCEPT ![t] = all]
    /\ sql_error' = [sql_error EXCEPT ![t] = FALSE]
    /\ rebuild_expired_RDS' = [rebuild_expired_RDS EXCEPT ![t] = rebuild]
    /\ IF Bypass(all, q)
       THEN /\ pc' = [pc EXCEPT ![t] = "done"]
            /\ qpos' = qpos
       ELSE /\ pc' = [pc EXCEPT ![t] = "lock"]
            /\ qpos' = [qpos EXCEPT ![t] = 1]
    /\ RDS_ids' = [RDS_ids EXCEPT ![t] = <<>>]
    /\ RDS_fingerprint' = [RDS_fingerprint EXCEPT ![t] = <<>>]
    /\ file_hash' = [file_hash EXCEPT ![t] = NoHash]
    /\ exists' = [exists EXCEPT ![t] = 0]
    /\ catalog_at_call' = [catalog_at_call EXCEPT ![t] =
                             { c \in RDS_catalog : c.subquery \in Subqueries(q) }]
    /\ built' = [built EXCEPT ![t] = {}]
    /\ UNCHANGED <<tables, tagsistant_RDS_mutex, tagging, rest, rds_id, next, negated, loaded>>

PrepareCall(t, q, all, rebuild) ==
    /\ pc[t] = "idle"
    /\ EnterPrepare(t, q, all, rebuild)
    /\ previous' = IF rebuild /\ ~Bypass(all, q)
                   THEN [u \in Threads |-> <<>>]
                   ELSE [previous EXCEPT ![t] = <<>>]

\* the caller that holds a fingerprint prepares the same query once more
PrepareAgain(t) ==
    /\ pc[t] \in {"done", "used"}
    /\ RDS_fingerprint[t] # <<>>
    /\ EnterPrepare(t, query[t], FALSE, FALSE)
    /\ UNCHANGED previous

\* no mutual exclusion
MutexIgnored(t) == TRUE

\* g_mutex_lock(&tagsistant_RDS_mutex)
MutexFree(t) == tagsistant_RDS_mutex = 0

Lock(t) ==
    /\ pc[t] = "lock"
    /\ MutexFree(t)
    /\ tagsistant_RDS_mutex' = t
    /\ pc' = [pc EXCEPT ![t] = IF rebuild_expired_RDS[t]
                                THEN "fetch_delete_rds" ELSE "fetch_select"]
    /\ Disturb(t)
    /\ UNCHANGED <<tables, tagging, rest, locals, history>>

(***************************************************************************)
(* tagsistant_RDS_fetch_id.                                                *)
(***************************************************************************)
\* select rds_id from RDS_catalog where subquery = '...'
CatalogIds(catalog, subquery) ==
    { e.rds_id : e \in { c \in catalog : c.subquery = subquery } }

\* the rows of the RDS are left behind
DeleteRDSNothing(rds, id) == rds

\* delete from RDS where rds_id = id
DeleteRDS(rds, id) ==
    DeleteRows(rds, { r \in DOMAIN rds : r.rds_id = id })

\* delete from RDS where rds_id = (select rds_id from RDS_catalog where subquery = '...')
\* the scalar subquery yields one of the catalog's ids for the subquery
FetchDeleteRDS(t) ==
    /\ pc[t] = "fetch_delete_rds"
    /\ LET ids == CatalogIds(RDS_catalog, Subquery(t))
       IN  IF ids = {}
           THEN RDS' = RDS
           ELSE \E id \in ids : RDS' = DeleteRDS(RDS, id)
    /\ pc' = [pc EXCEPT ![t] = "fetch_delete_catalog"]
    /\ Disturb(t)
    /\ UNCHANGED <<RDS_catalog, last_insert_id, tagsistant_RDS_mutex, tagging, rest, locals,
                   history>>

\* the catalog row is deleted only when it is marked expired
FetchDeleteCatalogExpired(t) ==
    /\ pc[t] = "fetch_delete_catalog"
    /\ RDS_catalog' = { c \in RDS_catalog : c.subquery # Subquery(t) \/ c.expired = 0 }
    /\ pc' = [pc EXCEPT ![t] = "fetch_select"]
    /\ Disturb(t)
    /\ UNCHANGED <<RDS, last_insert_id, tagsistant_RDS_mutex, tagging, rest, locals, history>>

\* delete from RDS_catalog where subquery = '...'
FetchDeleteCatalog(t) ==
    /\ pc[t] = "fetch_delete_catalog"
    /\ RDS_catalog' = { c \in RDS_catalog : c.subquery # Subquery(t) }
    /\ pc' = [pc EXCEPT ![t] = "fetch_select"]
    /\ Disturb(t)
    /\ UNCHANGED <<RDS, last_insert_id, tagsistant_RDS_mutex, tagging, rest, locals, history>>

\* the selected id never reaches rds_id
SelectRdsIdLost(catalog, subquery) == {0}

\* int rds_id = 0; select rds_id from RDS_catalog where subquery = '...':
\* the values tagsistant_return_integer can leave in rds_id
SelectRdsId(catalog, subquery) ==
    LET ids == CatalogIds(catalog, subquery)
    IN  IF ids = {} THEN {0} ELSE ids

\* the select of fetch_id, then `if (!rds_id)` of prepare
FetchSelect(t) ==
    /\ pc[t] = "fetch_select"
    /\ \E id \in SelectRdsId(RDS_catalog, Subquery(t)) :
              /\ rds_id' = [rds_id EXCEPT ![t] = id]
              /\ pc' = [pc EXCEPT ![t] = IF id = 0 THEN "phase1" ELSE "unlock"]
    /\ Disturb(t)
    /\ UNCHANGED <<tables, tagsistant_RDS_mutex, tagging, rest, query, qpos, is_all_path, sql_error,
                   rebuild_expired_RDS, RDS_ids, next, negated, RDS_fingerprint,
                   file_hash, exists, history>>

(***************************************************************************)
(* tagsistant_RDS_build.                                                   *)
(***************************************************************************)
\* the smallest id above the ids now in the catalog: the id of a deleted
\* entry is given again
AutoIncrementReuse(catalog, last) ==
    IF catalog = {} THEN 1
    ELSE 1 + (CHOOSE m \in { c.rds_id : c \in catalog } :
                 \A c \in catalog : c.rds_id <= m)

\* rds_id int primary key not null auto_increment
AutoIncrement(catalog, last) == last + 1

\* where build continues after PHASE 2 or a PHASE 3 statement (nxt is the
\* next ->next node), and after a PHASE 4 statement
AfterPhase3(head, nxt) ==
    IF nxt # 0 THEN <<"phase3", nxt, 0>>
    ELSE LET f == FirstNegated(head)
         IN  IF f[2] # 0 THEN <<"phase4", f[1], f[2]>> ELSE <<"unlock", 0, 0>>

AfterPhase4(main, neg) ==
    LET f == NextNegated(main, neg)
    IN  IF f[2] # 0 THEN <<"phase4", f[1], f[2]>> ELSE <<"unlock", 0, 0>>

\* PHASE 1: insert into RDS_catalog (subquery) values ('...'); last_insert_id
Phase1(t) ==
    /\ pc[t] = "phase1"
    /\ LET id  == AutoIncrement(RDS_catalog, last_insert_id)
           row == [rds_id |-> id, subquery |-> Subquery(t), expired |-> 0]
       IN  /\ RDS_catalog' = RDS_catalog \cup {row}
           /\ last_insert_id' = id
           /\ rds_id' = [rds_id EXCEPT ![t] = id]
           /\ built' = [built EXCEPT ![t] = built[t] \cup {row}]
    /\ pc' = [pc EXCEPT ![t] = IF AndSet(t) = 0 THEN "unlock" ELSE "phase2"]
    /\ Disturb(t)
    /\ UNCHANGED <<RDS, tagsistant_RDS_mutex, tagging, rest, query, qpos, is_all_path, sql_error,
                   rebuild_expired_RDS, RDS_ids, next, negated, RDS_fingerprint,
                   file_hash, exists, catalog_at_call, loaded>>

\* PHASE 2: seed the RDS with the objects matching the first node
Phase2(t) ==
    /\ pc[t] = "phase2"
    /\ RDS' = Phase2Insert(RDS, rds_id[t], AndSet(t), tagging)
    /\ LET go == AfterPhase3(AndSet(t), Heap[AndSet(t)].next)
       IN  /\ pc' = [pc EXCEPT ![t] = go[1]]
           /\ next' = [next EXCEPT ![t] = go[2]]
           /\ negated' = [negated EXCEPT ![t] = go[3]]
    /\ Disturb(t)
    /\ UNCHANGED <<RDS_catalog, last_insert_id, tagsistant_RDS_mutex, tagging, rest, query,
                   qpos, is_all_path, sql_error, rebuild_expired_RDS, rds_id, RDS_ids,
                   RDS_fingerprint, file_hash, exists, history>>

\* PHASE 3: one delete per ->next node
Phase3(t) ==
    /\ pc[t] = "phase3"
    /\ RDS' = Phase3Delete(RDS, rds_id[t], next[t], tagging)
    /\ LET go == AfterPhase3(AndSet(t), Heap[next[t]].next)
       IN  /\ pc' = [pc EXCEPT ![t] = go[1]]
           /\ next' = [next EXCEPT ![t] = go[2]]
           /\ negated' = [negated EXCEPT ![t] = go[3]]
    /\ Disturb(t)
    /\ UNCHANGED <<RDS_catalog, last_insert_id, tagsistant_RDS_mutex, tagging, rest, query,
                   qpos, is_all_path, sql_error, rebuild_expired_RDS, rds_id, RDS_ids,
                   RDS_fingerprint, file_hash, exists, history>>

\* PHASE 4: one delete per ->negated node of every main node
Phase4(t) ==
    /\ pc[t] = "phase4"
    /\ RDS' = Phase4Delete(RDS, rds_id[t], negated[t], tagging)
    /\ LET go == AfterPhase4(next[t], negated[t])
       IN  /\ pc' = [pc EXCEPT ![t] = go[1]]
           /\ next' = [next EXCEPT ![t] = go[2]]
           /\ negated' = [negated EXCEPT ![t] = go[3]]
    /\ Disturb(t)
    /\ UNCHANGED <<RDS_catalog, last_insert_id, tagsistant_RDS_mutex, tagging, rest, query,
                   qpos, is_all_path, sql_error, rebuild_expired_RDS, rds_id, RDS_ids,
                   RDS_fingerprint, file_hash, exists, history>>

\* g_mutex_unlock, append the id, query = query->next; after the last
\* or-node the collected ids are returned as the fingerprint
Unlock(t) ==
    /\ pc[t] = "unlock"
    /\ tagsistant_RDS_mutex' = 0
    /\ LET ids  == Append(RDS_ids[t], rds_id[t])
           last == qpos[t] >= Len(query[t])
       IN  /\ IF ~last
              THEN /\ RDS_ids' = [RDS_ids EXCEPT ![t] = ids]
                   /\ qpos' = [qpos EXCEPT ![t] = qpos[t] + 1]
                   /\ pc' = [pc EXCEPT ![t] = "lock"]
                   /\ RDS_fingerprint' = RDS_fingerprint
              ELSE /\ RDS_ids' = [RDS_ids EXCEPT ![t] = <<>>]
                   /\ qpos' = [qpos EXCEPT ![t] = 0]
                   /\ pc' = [pc EXCEPT ![t] = "done"]
                   /\ RDS_fingerprint' = [RDS_fingerprint EXCEPT ![t] = ids]
           /\ previous' = [u \in Threads |->
                             IF u = t THEN (IF last THEN ids ELSE previous[t])
                             ELSE IF rebuild_expired_RDS[t] THEN <<>>
                             ELSE previous[u]]
    /\ rds_id' = [rds_id EXCEPT ![t] = 0]
    /\ UNCHANGED <<tables, tagging, rest, query, is_all_path, sql_error, rebuild_expired_RDS,
                   next, negated, file_hash, exists, history>>

(***************************************************************************)
(* tagsistant_RDS_load and tagsistant_RDS_add_entry_callback.              *)
(***************************************************************************)
\* the ids a fingerprint lists: rds_id in (%s)
FingerprintIds(fp) == { fp[i] : i \in 1..Len(fp) }

\* one call of the callback: the GHashTable maps a name to the GList of its
\* file handles, kept here as the list of their inodes
tagsistant_RDS_add_entry_callback(hash_table, name, inode) ==
    LET list == IF name \in DOMAIN hash_table THEN hash_table[name] ELSE <<>>
    IN  IF \E i \in 1..Len(list) : list[i] = inode
        THEN hash_table
        ELSE [ k \in DOMAIN hash_table \cup {name} |->
                 IF k = name THEN <<inode>> \o list ELSE hash_table[k] ]

RECURSIVE AddEntries(_, _)
AddEntries(hash_table, rows) ==
    IF rows = <<>> THEN hash_table
    ELSE AddEntries(
           tagsistant_RDS_add_entry_callback(hash_table, Head(rows)[1], Head(rows)[2]),
           Tail(rows))

\* select distinct objectname, inode from RDS where rds_id in (fp)
SelectDistinct(rds, fp) ==
    { <<r.objectname, r.inode>> :
        r \in { x \in DOMAIN rds : x.rds_id \in FingerprintIds(fp) } }

\* the orders in which the engine may hand a result set to the callback
Orders(S) ==
    { f \in [1..Cardinality(S) -> S] : \A i, j \in DOMAIN f : f[i] = f[j] => i = j }

\* g_hash_table_new
EmptyHash == [k \in {} |-> <<>>]

\* the (objectname, inode) pairs a hash table holds
Pairs(hash_table) ==
    UNION { { <<k, hash_table[k][i]>> : i \in 1..Len(hash_table[k]) } :
              k \in DOMAIN hash_table }

\* record marks the single caller, whose results are kept per query
tagsistant_RDS_load(t, record) ==
    /\ pc[t] = "done"
    /\ RDS_fingerprint[t] # <<>>
    /\ \E rows \in Orders(SelectDistinct(RDS, RDS_fingerprint[t])) :
          LET h == AddEntries(EmptyHash, rows)
          IN  /\ file_hash' = [file_hash EXCEPT ![t] = h]
              /\ loaded' = IF record /\ query[t] \in Recorded
                           THEN [loaded EXCEPT ![query[t]] = Pairs(h)]
                           ELSE loaded
    /\ pc' = [pc EXCEPT ![t] = "used"]
    /\ UNCHANGED <<tables, tagsistant_RDS_mutex, tagging, rest, query, qpos, is_all_path, sql_error,
                   rebuild_expired_RDS, rds_id, RDS_ids, next, negated,
                   RDS_fingerprint, exists, catalog_at_call, built, previous>>

\* the select without its inode predicate
ContainsRowsAnyInode(rds, fp, object_path, inode) ==
    { r.inode : r \in { x \in DOMAIN rds :
                          /\ x.objectname = object_path
                          /\ x.rds_id \in FingerprintIds(fp) } }

(***************************************************************************)
(* tagsistant_RDS_contains_object.                                         *)
(***************************************************************************)
\* select inode from RDS where objectname = '..' [and inode = n] and rds_id in (fp)
ContainsRows(rds, fp, object_path, inode) ==
    { r.inode : r \in { x \in DOMAIN rds :
                          /\ x.objectname = object_path
                          /\ (inode # 0 => x.inode = inode)
                          /\ x.rds_id \in FingerprintIds(fp) } }

ObjectPaths == { o.objectname : o \in Objects }
Inodes == { o.inode : o \in Objects }

tagsistant_RDS_contains_object(t, object_path, inode) ==
    /\ pc[t] = "done"
    /\ RDS_fingerprint[t] # <<>>
    /\ LET found == ContainsRows(RDS, RDS_fingerprint[t], object_path, inode)
       IN  \E e \in (IF found = {} THEN {0} ELSE found) :
              exists' = [exists EXCEPT ![t] = e]
    /\ pc' = [pc EXCEPT ![t] = "used"]
    /\ UNCHANGED <<tables, tagsistant_RDS_mutex, tagging, rest, query, qpos, is_all_path, sql_error,
                   rebuild_expired_RDS, rds_id, RDS_ids, next, negated,
                   RDS_fingerprint, file_hash, history, previous>>

(***************************************************************************)
(* tagsistant_RDS_invalidate.                                              *)
(***************************************************************************)
\* the update without its where clause
MarkExpiredAll(catalog, fp) ==
    { [c EXCEPT !.expired = 1] : c \in catalog }

\* update RDS_catalog set expired = 1 where rds_id in (fp)
MarkExpired(catalog, fp) ==
    { IF c.rds_id \in FingerprintIds(fp) THEN [c EXCEPT !.expired = 1] ELSE c :
        c \in catalog }

tagsistant_RDS_invalidate(t) ==
    /\ pc[t] \in {"done", "mutated"}
    /\ RDS_fingerprint[t] # <<>>
    /\ RDS_catalog' = MarkExpired(RDS_catalog, RDS_fingerprint[t])
    /\ pc' = [pc EXCEPT ![t] = "used"]
    /\ UNCHANGED <<RDS, last_insert_id, tagsistant_RDS_mutex, tagging, rest, locals,
                   history, previous>>

\* the caller drops its querytree (and the fingerprint with it)
Release(t) ==
    /\ pc[t] \in {"done", "used"}
    /\ pc' = [pc EXCEPT ![t] = "idle"]
    /\ query' = [query EXCEPT ![t] = <<>>]
    /\ is_all_path' = [is_all_path EXCEPT ![t] = FALSE]
    /\ sql_error' = [sql_error EXCEPT ![t] = FALSE]
    /\ rebuild_expired_RDS' = [rebuild_expired_RDS EXCEPT ![t] = FALSE]
    /\ RDS_fingerprint' = [RDS_fingerprint EXCEPT ![t] = <<>>]
    /\ file_hash' = [file_hash EXCEPT ![t] = NoHash]
    /\ exists' = [exists EXCEPT ![t] = 0]
    /\ catalog_at_call' = [catalog_at_call EXCEPT ![t] = {}]
    /\ built' = [built EXCEPT ![t] = {}]
    /\ previous' = [previous EXCEPT ![t] = <<>>]
    /\ UNCHANGED <<tables, tagsistant_RDS_mutex, tagging, rest, qpos, rds_id, RDS_ids,
                   next, negated, loaded>>

(***************************************************************************)
(* The tags/objects catalog changes under the cache: an object is tagged.  *)
(***************************************************************************)
TagObject(inode, tag_id) ==
    /\ <<inode, tag_id>> \notin tagging
    /\ Cardinality(tagging \ InitTagging) < MaxTaggings
    /\ tagging' = tagging \cup { <<inode, tag_id>> }
    /\ UNCHANGED <<tables, tagsistant_RDS_mutex, pc, locals, history, previous,
                   rest>>

\* the ids of the entries of the subqueries of q whose build has run
BuiltEntries(q) ==
    { c.rds_id : c \in { x \in RDS_catalog :
                            /\ x.subquery \in Subqueries(q)
                            /\ ~\E u \in Threads :
                                   /\ pc[u] \in {"phase2", "phase3", "phase4"}
                                   /\ rds_id[u] = x.rds_id } }

\* the caller that holds the fingerprint of a query tags an object, and is
\* then to invalidate the fingerprint
TagObjectHolding(t, inode, tag_id) ==
    /\ pc[t] = "done"
    /\ RDS_fingerprint[t] # <<>>
    /\ <<inode, tag_id>> \notin tagging
    /\ Cardinality(tagging \ InitTagging) < MaxTaggings
    /\ tagging' = tagging \cup { <<inode, tag_id>> }
    /\ pc' = [pc EXCEPT ![t] = "mutated"]
    /\ built_before' = [built_before EXCEPT ![t] = BuiltEntries(query[t])]
    /\ UNCHANGED <<tables, tagsistant_RDS_mutex, locals, history, previous,
                   failures, mknod_vars>>

(***************************************************************************)
(* Two threads call into the RDS while objects are tagged.  Thread 1 makes *)
(* every call; thread 2 interferes with it by preparing (with and without  *)
(* rebuild_expired_RDS) and invalidating a query that shares its subquery  *)
(* with the queries of thread 1.  load and contains_object write nothing,  *)
(* so one reader shows what any reader sees.                               *)
(***************************************************************************)
Next ==
    \/ \E q \in Queries, all \in BOOLEAN, rebuild \in BOOLEAN :
          pc[1] = "idle" /\ IdsLeft(q, MaxRdsId) /\ PrepareCall(1, q, all, rebuild)
    \/ \E q \in OtherQueries, rebuild \in BOOLEAN :
          /\ pc[2] = "idle"
          /\ IdsLeft(q, MaxRdsId) \/ (~rebuild /\ Cached(q))
          /\ PrepareCall(2, q, FALSE, rebuild)
    \/ /\ pc[1] \in {"done", "used"}
       /\ IdsLeft(query[1], MaxRdsId) \/ Cached(query[1])
       /\ PrepareAgain(1)
    \/ \E t \in Threads : Lock(t)
    \/ \E t \in Threads : FetchDeleteRDS(t)
    \/ \E t \in Threads : FetchDeleteCatalog(t)
    \/ \E t \in Threads : FetchSelect(t)
    \/ \E t \in Threads : Phase1(t)
    \/ \E t \in Threads : Phase2(t)
    \/ \E t \in Threads : Phase3(t)
    \/ \E t \in Threads : Phase4(t)
    \/ \E t \in Threads : Unlock(t)
    \/ tagsistant_RDS_load(1, FALSE)
    \/ \E n \in ObjectPaths, i \in Inodes \cup {0} :
          tagsistant_RDS_contains_object(1, n, i)
    \/ \E t \in Threads : tagsistant_RDS_invalidate(t)
    \/ \E t \in Threads : Release(t)
    \/ \E tg \in NewTaggings : TagObject(tg[1], tg[2])

Spec == Init /\ [][Next]_vars

(***************************************************************************)
(* One caller resolves queries over a tags/objects catalog that stays as   *)
(* it is.  Every shape of and-set is built on an empty catalog; the        *)
(* queries whose loads are recorded are prepared in any order, and once    *)
(* more whenever the catalog answers them without a build.                 *)
(***************************************************************************)
InitSeq ==
    /\ InitTables
    /\ tagging \in SeqTaggings
    /\ InitLocals
    /\ InitMknod

NextSeq ==
    \/ \E q \in SeqQueries, all \in BOOLEAN, rebuild \in BOOLEAN :
          /\ pc[1] = "idle"
          /\ q \in Recorded \/ RDS_catalog = {}
          /\ IdsLeft(q, SeqMaxRdsId)
          /\ PrepareCall(1, q, all, rebuild)
    \/ \E q \in Recorded :
          pc[1] = "idle" /\ Cached(q) /\ PrepareCall(1, q, FALSE, FALSE)
    \/ Lock(1)
    \/ FetchDeleteRDS(1)
    \/ FetchDeleteCatalog(1)
    \/ FetchSelect(1)
    \/ Phase1(1)
    \/ Phase2(1)
    \/ Phase3(1)
    \/ Phase4(1)
    \/ Unlock(1)
    \/ tagsistant_RDS_load(1, TRUE)
    \/ Release(1)

SpecSeq == InitSeq /\ [][NextSeq]_vars

(***************************************************************************)
(* Two threads prepare the same query, whose build runs through all four   *)
(* phases, with and without rebuild_expired_RDS, and load what they hold   *)
(* while the other one builds.                                             *)
(***************************************************************************)
NextRace ==
    \/ \E t \in Threads, q \in RaceQueries, rebuild \in BOOLEAN :
          pc[t] = "idle" /\ IdsLeft(q, RaceMaxRdsId) /\ PrepareCall(t, q, FALSE, rebuild)
    \/ \E t \in Threads : Lock(t)
    \/ \E t \in Threads : FetchDeleteRDS(t)
    \/ \E t \in Threads : FetchDeleteCatalog(t)
    \/ \E t \in Threads : FetchSelect(t)
    \/ \E t \in Threads : Phase1(t)
    \/ \E t \in Threads : Phase2(t)
    \/ \E t \in Threads : Phase3(t)
    \/ \E t \in Threads : Phase4(t)
    \/ \E t \in Threads : Unlock(t)
    \/ \E t \in Threads : tagsistant_RDS_load(t, FALSE)
    \/ \E t \in Threads : Release(t)

SpecRace == Init /\ [][NextRace]_vars

(***************************************************************************)
(* Statements that fail.  tagsistant_query then changes no table and calls *)
(* no callback; the callers in rds.c drop what tagsistant_query returns    *)
(* and go on with the next statement.                                      *)
(***************************************************************************)
\* a statement of tagsistant_RDS_fetch_id fails: a delete removes nothing,
\* the select leaves rds_id at the 0 it was initialised to
FetchIdFails(t) ==
    /\ pc[t] \in {"fetch_delete_rds", "fetch_delete_catalog", "fetch_select"}
    /\ failures < MaxFailures
    /\ pc' = [pc EXCEPT ![t] =
                CASE pc[t] = "fetch_delete_rds"     -> "fetch_delete_catalog"
                  [] pc[t] = "fetch_delete_catalog" -> "fetch_select"
                  [] OTHER                          -> "phase1"]
    /\ rds_id' = [rds_id EXCEPT ![t] = IF pc[t] = "fetch_select" THEN 0 ELSE @]
    /\ sql_error' = [sql_error EXCEPT ![t] = TRUE]
    /\ failures' = failures + 1
    /\ Disturb(t)
    /\ UNCHANGED <<tables, tagsistant_RDS_mutex, tagging, mknod_vars, built_before, query, qpos,
                   is_all_path, rebuild_expired_RDS, RDS_ids, next, negated,
                   RDS_fingerprint, file_hash, exists, history>>

\* tagsistant_last_insert_id after an insert that failed: no id, or the id
\* of the last insert that succeeded
LastInsertIdAfterFailure(last) == {0, last}

\* the insert of PHASE 1 fails: no catalog row, rds_id is whatever
\* tagsistant_last_insert_id answers, and build goes on to PHASE 2
Phase1Fails(t) ==
    /\ pc[t] = "phase1"
    /\ failures < MaxFailures
    /\ \E id \in LastInsertIdAfterFailure(last_insert_id) :
          rds_id' = [rds_id EXCEPT ![t] = id]
    /\ pc' = [pc EXCEPT ![t] = IF AndSet(t) = 0 THEN "unlock" ELSE "phase2"]
    /\ sql_error' = [sql_error EXCEPT ![t] = TRUE]
    /\ failures' = failures + 1
    /\ Disturb(t)
    /\ UNCHANGED <<tables, tagsistant_RDS_mutex, tagging, mknod_vars, built_before, query, qpos,
                   is_all_path, rebuild_expired_RDS, RDS_ids, next, negated,
                   RDS_fingerprint, file_hash, exists, history>>

\* a statement of PHASE 2, 3 or 4 fails: the RDS stays as it is and build
\* goes on to its next statement
BuildFails(t) ==
    /\ pc[t] \in {"phase2", "phase3", "phase4"}
    /\ failures < MaxFailures
    /\ LET go == CASE pc[t] = "phase2" -> AfterPhase3(AndSet(t), Heap[AndSet(t)].next)
                   [] pc[t] = "phase3" -> AfterPhase3(AndSet(t), Heap[next[t]].next)
                   [] OTHER            -> AfterPhase4(next[t], negated[t])
       IN  /\ pc' = [pc EXCEPT ![t] = go[1]]
           /\ next' = [next EXCEPT ![t] = go[2]]
           /\ negated' = [negated EXCEPT ![t] = go[3]]
    /\ sql_error' = [sql_error EXCEPT ![t] = TRUE]
    /\ failures' = failures + 1
    /\ Disturb(t)
    /\ UNCHANGED <<tables, tagsistant_RDS_mutex, tagging, mknod_vars, built_before, query, qpos,
                   is_all_path, rebuild_expired_RDS, rds_id, RDS_ids,
                   RDS_fingerprint, file_hash, exists, history>>

(***************************************************************************)
(* One caller prepares and loads while any statement of prepare may fail.  *)
(***************************************************************************)
NextFail ==
    \/ \E q \in FailQueries, rebuild \in BOOLEAN :
          pc[1] = "idle" /\ IdsLeft(q, FailMaxRdsId) /\ PrepareCall(1, q, FALSE, rebuild)
    \/ Lock(1)
    \/ FetchDeleteRDS(1)
    \/ FetchDeleteCatalog(1)
    \/ FetchSelect(1)
    \/ FetchIdFails(1)
    \/ Phase1(1)
    \/ Phase1Fails(1)
    \/ Phase2(1)
    \/ Phase3(1)
    \/ Phase4(1)
    \/ BuildFails(1)
    \/ Unlock(1)
    \/ tagsistant_RDS_load(1, FALSE)
    \/ Release(1)

SpecFail == Init /\ [][NextFail]_vars

(***************************************************************************)
(* The two racing callers under a scheduler that lets every thread run:    *)
(* a step of prepare that stays possible is taken.  g_mutex_lock promises  *)
(* no order among the threads that wait, so the step that takes the mutex  *)
(* is as weakly fair as the others.  Calling prepare, loading and letting  *)
(* go are up to the caller.                                                *)
(***************************************************************************)
PrepareStep(t) ==
    \/ Lock(t)
    \/ FetchDeleteRDS(t)
    \/ FetchDeleteCatalog(t)
    \/ FetchSelect(t)
    \/ Phase1(t)
    \/ Phase2(t)
    \/ Phase3(t)
    \/ Phase4(t)
    \/ Unlock(t)

SpecFair == Init /\ [][NextRace]_vars /\ \A t \in Threads : WF_vars(PrepareStep(t))

(***************************************************************************)
(* tagsistant_mknod.                                                       *)
(***************************************************************************)
\* tagsistant_force_create_and_tag_object on success: the object is tagged
tagsistant_force_create_and_tag_object(tg, inode, tag_id) ==
    tg \cup { <<inode, tag_id>> }

\* the callee's result instead of the negated errno
MknodReturnRes(r, e) == r

\* return((res == -1) ? -tagsistant_errno : 0)
MknodReturn(r, e) == IF r = -1 THEN -e ELSE 0

\* one call of mknod on a path whose querytree is malformed or not, points
\* to an object or not, is taggable or not.  tag_errno is what
\* tagsistant_force_create_and_tag_object leaves in *error (0: it succeeds),
\* sys_errno the errno of mknod(2) (0: it succeeds), stale the errno a
\* successful mknod(2) leaves behind.
tagsistant_mknod(malformed, points_to_object, taggable, inode, tag_id, tag_errno, sys_errno, stale) ==
    LET tags     == ~malformed /\ points_to_object /\ taggable
        tagged   == tags /\ tag_errno = 0
        attempts == ~malformed /\ points_to_object /\ (taggable => tag_errno = 0)
        r == IF malformed THEN -1
             ELSE IF points_to_object
                  THEN IF tags /\ tag_errno # 0 THEN -1
                       ELSE IF sys_errno # 0 THEN -1 ELSE 0
                  ELSE -1
        e == IF malformed THEN EFAULT
             ELSE IF points_to_object
                  THEN IF tags /\ tag_errno # 0 THEN tag_errno
                       ELSE IF sys_errno # 0 THEN sys_errno ELSE stale
                  ELSE EROFS
    IN  /\ tagging' = IF tagged
                      THEN tagsistant_force_create_and_tag_object(tagging, inode, tag_id)
                      ELSE tagging
        /\ archive' = IF attempts /\ sys_errno = 0 THEN archive \cup {inode} ELSE archive
        /\ res' = r
        /\ tagsistant_errno' = e
        /\ returned' = MknodReturn(r, e)
        /\ mknod_call' = [malformed |-> malformed, points_to_object |-> points_to_object,
                          taggable |-> taggable, inode |-> inode, tag_id |-> tag_id,
                          tree |-> MknodTree(tag_id),
                          tag_errno |-> IF tags THEN tag_errno ELSE 0,
                          sys_errno |-> IF attempts THEN sys_errno ELSE 0,
                          tagged |-> tagged, attempted |-> attempts]
        /\ UNCHANGED <<tables, tagsistant_RDS_mutex, pc, locals, history, previous,
                       failures, built_before>>

(***************************************************************************)
(* One caller prepares a query an object is created under, loads it and    *)
(* looks objects up in it, while mknod is called on paths of every kind    *)
(* with every outcome of tagging and of mknod(2).                          *)
(***************************************************************************)
NextMknod ==
    \/ \E q \in MknodQueries, rebuild \in BOOLEAN :
          pc[1] = "idle" /\ IdsLeft(q, MknodMaxRdsId) /\ PrepareCall(1, q, FALSE, rebuild)
    \/ Lock(1)
    \/ FetchDeleteRDS(1)
    \/ FetchDeleteCatalog(1)
    \/ FetchSelect(1)
    \/ Phase1(1)
    \/ Phase2(1)
    \/ Unlock(1)
    \/ tagsistant_RDS_load(1, FALSE)
    \/ \E n \in ObjectPaths, i \in Inodes \cup {0} :
          tagsistant_RDS_contains_object(1, n, i)
    \/ Release(1)
    \/ \E malformed, points_to_object, taggable \in BOOLEAN, tg \in MknodTargets,
          tag_errno \in {0} \cup TaggingErrors, sys_errno \in {0} \cup MknodErrors,
          stale \in {0} \cup MknodErrors :
          tagsistant_mknod(malformed, points_to_object, taggable, tg[1], tg[2],
                           tag_errno, sys_errno, stale)

SpecMknod == Init /\ [][NextMknod]_vars

(***************************************************************************)
(* Two threads prepare and load a triple and a chain of plain tags made of *)
(* the same words.                                                         *)
(***************************************************************************)
NextKey ==
    \/ \E t \in Threads, q \in KeyQueries, rebuild \in BOOLEAN :
          pc[t] = "idle" /\ IdsLeft(q, KeyMaxRdsId) /\ PrepareCall(t, q, FALSE, rebuild)
    \/ \E t \in Threads : Lock(t)
    \/ \E t \in Threads : FetchDeleteRDS(t)
    \/ \E t \in Threads : FetchDeleteCatalog(t)
    \/ \E t \in Threads : FetchSelect(t)
    \/ \E t \in Threads : Phase1(t)
    \/ \E t \in Threads : Phase2(t)
    \/ \E t \in Threads : Phase3(t)
    \/ \E t \in Threads : Unlock(t)
    \/ \E t \in Threads : tagsistant_RDS_load(t, FALSE)
    \/ \E t \in Threads : Release(t)

SpecKey == Init /\ [][NextKey]_vars

(***************************************************************************)
(* Two threads prepare one query, with and without rebuild_expired_RDS;    *)
(* each may tag an object while it holds the fingerprint and then          *)
(* invalidates the fingerprint.                                            *)
(***************************************************************************)
NextInval ==
    \/ \E t \in Threads, q \in InvalQueries, rebuild \in BOOLEAN :
          pc[t] = "idle" /\ IdsLeft(q, InvalMaxRdsId) /\ PrepareCall(t, q, FALSE, rebuild)
    \/ \E t \in Threads : Lock(t)
    \/ \E t \in Threads : FetchDeleteRDS(t)
    \/ \E t \in Threads : FetchDeleteCatalog(t)
    \/ \E t \in Threads : FetchSelect(t)
    \/ \E t \in Threads : Phase1(t)
    \/ \E t \in Threads : Phase2(t)
    \/ \E t \in Threads : Unlock(t)
    \/ \E t \in Threads, tg \in NewTaggings : TagObjectHolding(t, tg[1], tg[2])
    \/ \E t \in Threads : tagsistant_RDS_invalidate(t)
    \/ \E t \in Threads : Release(t)

SpecInval == Init /\ [][NextInval]_vars

(***************************************************************************)
(* Properties.                                                             *)
(***************************************************************************)
Holding(t) == pc[t] \in {"done", "used"} /\ RDS_fingerprint[t] # <<>>

\* the step by which prepare returns a fingerprint to thread t
Returns(t) == pc[t] = "unlock" /\ pc'[t] = "done"

\* the ids of the query's catalog rows that were marked expired when
\* prepare was called
ExpiredAtCall(t) ==
    { c.rds_id : c \in { x \in catalog_at_call[t] : x.expired = 1 } }

\* the subqueries of the query that had no catalog row when prepare was called
AbsentAtCall(t) ==
    Subqueries(query[t]) \ { c.subquery : c \in catalog_at_call[t] }

\* the ids the fingerprint of thread t lists for subquery s
IdsFor(t, s) ==
    { RDS_fingerprint[t][i] :
        i \in { j \in 1..Len(query[t]) : SubqueryOf[query[t][j]] = s } }

\* C1: cache hit. A prepare without rebuild_expired of a query whose
\* fingerprint F was returned before, with no rebuilding prepare running
\* since, returns the ids of F and inserts no catalog row.
C1_CacheHit ==
    [][ \A t \in Threads :
          (Returns(t) /\ previous[t] # <<>>) =>
              /\ FingerprintIds(RDS_fingerprint'[t]) = FingerprintIds(previous[t])
              /\ built[t] = {} ]_vars

\* C2: after an invalidate of a query's catalog rows the next prepare of the
\* query, whatever its rebuild_expired, returns none of the expired ids.
C2_NextPrepareRebuilds ==
    \A t \in Threads :
        Holding(t) => FingerprintIds(RDS_fingerprint[t]) \cap ExpiredAtCall(t) = {}

\* C3: rebuild purges. Once prepare with rebuild_expired has returned, no RDS
\* row and no catalog row carries an id that was expired for the query when it
\* was called, and the new fingerprint lists none of those ids.
C3_RebuildPurges ==
    \A t \in Threads :
        (Holding(t) /\ rebuild_expired_RDS[t]) =>
            \A id \in ExpiredAtCall(t) :
                /\ \A c \in RDS_catalog : c.rds_id # id
                /\ \A r \in DOMAIN RDS : r.rds_id # id
                /\ id \notin FingerprintIds(RDS_fingerprint[t])

C3_Witness ==
    \E t \in Threads :
        Holding(t) /\ rebuild_expired_RDS[t] /\ ExpiredAtCall(t) # {}

\* C4: build once. Two threads that called prepare without rebuild_expired
\* while a subquery of both queries had no catalog row: one of them inserted
\* the row, and both fingerprints list its id for the subquery.
C4_BuildOnce ==
    \A t1, t2 \in Threads :
        (/\ t1 # t2
         /\ Holding(t1) /\ ~rebuild_expired_RDS[t1]
         /\ Holding(t2) /\ ~rebuild_expired_RDS[t2]) =>
            \A s \in AbsentAtCall(t1) \cap AbsentAtCall(t2) :
                /\ Cardinality({ b \in built[t1] \cup built[t2] : b.subquery = s }) = 1
                /\ IdsFor(t1, s) = IdsFor(t2, s)
                /\ Cardinality(IdsFor(t1, s)) = 1

C4_Witness ==
    \E t1, t2 \in Threads :
        /\ t1 # t2
        /\ Holding(t1) /\ ~rebuild_expired_RDS[t1]
        /\ Holding(t2) /\ ~rebuild_expired_RDS[t2]
        /\ AbsentAtCall(t1) \cap AbsentAtCall(t2) # {}

\* C5: when prepare returns a fingerprint, every id in it is the id of a
\* catalog row that is not expired.
C5_FingerprintLive ==
    [][ \A t \in Threads :
          Returns(t) =>
              \A id \in FingerprintIds(RDS_fingerprint'[t]) :
                  \E c \in RDS_catalog' : c.rds_id = id /\ c.expired = 0 ]_vars

\* C6: RDS_catalog holds at most one row per subquery.
C6_SubqueryUnique ==
    \A c1, c2 \in RDS_catalog : c1.subquery = c2.subquery => c1.rds_id = c2.rds_id

\* a thread is about to insert the row of a subquery while the other one
\* waits for the mutex with the same subquery
C6_Witness ==
    \E t1, t2 \in Threads :
        /\ pc[t1] = "phase1"
        /\ pc[t2] = "lock"
        /\ Subquery(t1) = Subquery(t2)

\* C7: every row of RDS carries the rds_id of a catalog row, between the
\* statements of a rebuild and of a build too.
C7_RowsHaveCatalogRow ==
    \A r \in DOMAIN RDS : \E c \in RDS_catalog : c.rds_id = r.rds_id

\* in the middle of a build: the catalog row is inserted and the RDS seeded,
\* the rows are not yet filtered
C7_Witness ==
    \E t \in Threads :
        /\ pc[t] = "phase3"
        /\ \E r \in DOMAIN RDS : r.rds_id = rds_id[t]

\* C8: union correctness. Over an unchanged tags/objects catalog the pairs
\* loaded for a query of two or-branches are the union of the pairs loaded
\* for each branch taken alone.
C8_UnionCorrect ==
    \A q \in Recorded :
        (/\ Len(q) = 2
         /\ loaded[q] # NotLoaded
         /\ loaded[<<q[1]>>] # NotLoaded
         /\ loaded[<<q[2]>>] # NotLoaded) =>
            loaded[q] = loaded[<<q[1]>>] \cup loaded[<<q[2]>>]

\* the nodes reached from a node by ->next, and by ->negated
RECURSIVE MainChain(_)
MainChain(ptr) ==
    IF ptr = 0 THEN {} ELSE {ptr} \cup MainChain(Heap[ptr].next)

RECURSIVE NegatedChain(_)
NegatedChain(ptr) ==
    IF ptr = 0 THEN {} ELSE {ptr} \cup NegatedChain(Heap[ptr].negated)

\* the object is tagged by the atom
Tagged(inode, ptr, tg) ==
    \E row \in JoinRows(tg) :
        row.inode = inode /\ tagsistant_query_add_and_set(Heap[ptr], row)

\* the objects a conjunction stands for
Expected(and_set, tg) ==
    { i \in Inodes :
        /\ \A n \in MainChain(and_set) :
              \E r \in RelatedChain(n) : Tagged(i, r, tg)
        /\ \A n \in MainChain(and_set) :
              \A m \in NegatedChain(Heap[n].negated) :
                  \A r \in RelatedChain(m) : ~Tagged(i, r, tg) }

Stored(id) == { r.inode : r \in { x \in DOMAIN RDS : x.rds_id = id } }

\* build has run for the and-set of thread t and is complete
BuildComplete(t) ==
    /\ pc[t] = "unlock"
    /\ \E b \in built[t] : b.rds_id = rds_id[t]
    /\ \A i \in 1..Len(RDS_ids[t]) : RDS_ids[t][i] # rds_id[t]

\* C9: build result. When build completes, the inodes stored under the new
\* rds_id are the objects tagged, for every atom of the main chain, by the
\* atom or one of its related atoms, and tagged by no negated atom and by no
\* related atom of a negated atom.
C9_BuildResult ==
    \A t \in Threads :
        BuildComplete(t) => Stored(rds_id[t]) = Expected(AndSet(t), tagging)

\* big AND blue-or-sky AND NOT red is built and leaves objects
C9_Witness ==
    /\ BuildComplete(1)
    /\ Heap[AndSet(1)].next # 0
    /\ Heap[Heap[AndSet(1)].next].related # 0
    /\ Heap[AndSet(1)].negated # 0
    /\ Stored(rds_id[1]) # {}

RowsUnder(rds, id) ==
    [ r \in { x \in DOMAIN rds : x.rds_id = id } |-> rds[r] ]

\* a build has inserted the catalog row of id and has not run its last phase
UnderConstruction(id) ==
    \E u \in Threads : pc[u] \in {"phase2", "phase3", "phase4"} /\ rds_id[u] = id

\* C11: no partial build is observable. No id of a fingerprint a completed
\* prepare returned is the id of a build between its Phase 1 and its last
\* phase, and while the fingerprint is held the rows under each of its ids
\* stay as they are or are removed all at once by a rebuild: a load of the
\* fingerprint sees the complete row set or the set after the rebuild.
C11_NoPartialBuild ==
    [][ \A t \in Threads :
          Holding(t)' =>
            \A id \in FingerprintIds(RDS_fingerprint'[t]) :
               /\ ~UnderConstruction(id)'
               /\ (Holding(t) /\ RDS_fingerprint'[t] = RDS_fingerprint[t]) =>
                     \/ RowsUnder(RDS', id) = RowsUnder(RDS, id)
                     \/ RowsUnder(RDS', id) = EmptyBag ]_vars

\* a caller has loaded its fingerprint while the other caller, rebuilding
\* the same query, is in Phase 3 or 4 and has removed the rows it loaded
C11_Witness ==
    \E t, u \in Threads :
        /\ pc[t] = "used"
        /\ RDS_fingerprint[t] # <<>>
        /\ Pairs(file_hash[t]) # {}
        /\ query[u] = query[t]
        /\ rebuild_expired_RDS[u]
        /\ pc[u] \in {"phase3", "phase4"}
        /\ SelectDistinct(RDS, RDS_fingerprint[t]) = {}

\* C12: SQL errors are surfaced. When a statement issued during prepare
\* failed, prepare hands back no fingerprint; and no fingerprint prepare
\* returns lists the id 0.
C12_ErrorSurfaced ==
    \A t \in Threads :
        pc[t] \in {"done", "used"} =>
            /\ sql_error[t] => RDS_fingerprint[t] = <<>>
            /\ 0 \notin FingerprintIds(RDS_fingerprint[t])

\* the fetch-or-build critical section of prepare, rds.c 489-503
CriticalSection ==
    {"fetch_delete_rds", "fetch_delete_catalog", "fetch_select",
     "phase1", "phase2", "phase3", "phase4", "unlock"}

\* C13 as claimed: the mutex is held by a thread exactly while it is in the
\* critical section (never when prepare has returned or moves to the next
\* disjunct), and every prepare call that was made eventually returns.
C13_EveryCallReturns ==
    /\ [](\A t \in Threads : tagsistant_RDS_mutex = t <=> pc[t] \in CriticalSection)
    /\ \A t \in Threads : (pc[t] = "lock") ~> (pc[t] = "done")

\* C13: the mutex is held by a thread exactly while it is in the critical
\* section; a thread that holds it releases it, and while a thread waits
\* for it some thread gets it: no deadlock.
C13_MutexReleased ==
    /\ [](\A t \in Threads : tagsistant_RDS_mutex = t <=> pc[t] \in CriticalSection)
    /\ \A t \in Threads : (tagsistant_RDS_mutex = t) ~> (tagsistant_RDS_mutex # t)
    /\ (\E t \in Threads : pc[t] = "lock") ~> (tagsistant_RDS_mutex # 0)

\* one caller waits for the mutex the other holds in the middle of a build
C13_Witness ==
    /\ pc[1] = "lock"
    /\ tagsistant_RDS_mutex = 2
    /\ pc[2] \in {"phase3", "phase4"}

\* C14: exclusive writer discipline. Every step that writes RDS_catalog or
\* RDS is a step of the thread that holds the RDS mutex.
C14_ExclusiveWriter ==
    [][ (RDS_catalog' # RDS_catalog \/ RDS' # RDS) =>
          \E t \in Threads :
              /\ tagsistant_RDS_mutex = t
              /\ \A u \in Threads \ {t} : pc'[u] = pc[u] ]_vars

\* C15: RDSs are discarded on object creation. When mknod has created and
\* tagged an object and returns 0, every catalog entry of a subquery of the
\* path's query is expired, or there is none.
C15_DiscardOnCreation ==
    [][ (tagging' # tagging /\ mknod_call'.tagged /\ returned' = 0) =>
          \A c \in RDS_catalog' :
              c.subquery \in Subqueries(mknod_call'.tree) => c.expired = 1 ]_vars

\* C16: mknod returns 0 on success and a negative errno otherwise. A
\* malformed path gives -EFAULT and a path that points to no object -EROFS,
\* both without tagging anything or creating a node; when the tagging fails
\* mknod(2) is not attempted and the error of the tagging is returned.
C16_MknodReturns ==
    [][ (mknod_vars' # mknod_vars \/ tagging' # tagging) =>
          LET c == mknod_call'
              untouched == tagging' = tagging /\ archive' = archive /\ ~c.attempted
          IN  /\ c.malformed => returned' = -EFAULT /\ untouched
              /\ (~c.malformed /\ ~c.points_to_object) => returned' = -EROFS /\ untouched
              /\ c.tag_errno # 0 => returned' = -c.tag_errno /\ untouched
              /\ returned' = 0 <=> (c.attempted /\ c.sys_errno = 0)
              /\ returned' # 0 => returned' < 0 /\ returned' = -tagsistant_errno'
              /\ returned' = 0 => (c.taggable => <<c.inode, c.tag_id>> \in tagging')
                                  /\ c.inode \in archive' ]_vars

\* the tagging of a taggable object failed: mknod returned its error and
\* left the archive alone
C16_Witness ==
    /\ ~mknod_call.malformed
    /\ mknod_call.points_to_object
    /\ mknod_call.taggable
    /\ mknod_call.tag_errno \in TaggingErrors
    /\ returned = -mknod_call.tag_errno
    /\ mknod_call.inode \notin archive

\* the catalog rows of the subqueries other than s, and the RDS rows under
\* their ids
OtherEntries(catalog, s) == { c \in catalog : c.subquery # s }
OtherRows(catalog, rds, s) ==
    [ r \in { x \in DOMAIN rds :
                x.rds_id \in { c.rds_id : c \in OtherEntries(catalog, s) } } |-> rds[r] ]

\* C17: with rebuild_expired_RDS set, fetch_id leaves no catalog row of the
\* subquery, expired or not, and returns 0, and its deletes leave the rows
\* of the other subqueries as they are; a prepare with rebuild_expired_RDS
\* returns, for every or-node of the query, an id it has built itself, none
\* of them an id the query had when prepare was called.
C17_RebuildAlways ==
    [][ \A t \in Threads :
          rebuild_expired_RDS[t] =>
            /\ (pc[t] = "fetch_select" /\ pc'[t] # "fetch_select") =>
                  /\ \A c \in RDS_catalog : c.subquery # Subquery(t)
                  /\ rds_id'[t] = 0
                  /\ pc'[t] = "phase1"
            /\ (pc[t] \in {"fetch_delete_rds", "fetch_delete_catalog"} /\ pc'[t] # pc[t]) =>
                  /\ OtherEntries(RDS_catalog', Subquery(t)) = OtherEntries(RDS_catalog, Subquery(t))
                  /\ OtherRows(RDS_catalog, RDS', Subquery(t)) = OtherRows(RDS_catalog, RDS, Subquery(t))
            /\ Returns(t) =>
                  /\ Len(RDS_fingerprint'[t]) = Len(query[t])
                  /\ Cardinality(built[t]) = Len(query[t])
                  /\ FingerprintIds(RDS_fingerprint'[t]) = { b.rds_id : b \in built[t] }
                  /\ \A c \in catalog_at_call[t] :
                        c.rds_id \notin FingerprintIds(RDS_fingerprint'[t]) ]_vars

\* a prepare with rebuild_expired_RDS has returned; the query had an entry
\* that was not expired when it was called
C17_Witness ==
    \E t \in Threads :
        /\ pc[t] = "done"
        /\ rebuild_expired_RDS[t]
        /\ RDS_fingerprint[t] # <<>>
        /\ \E c \in catalog_at_call[t] : c.expired = 0

\* what contains_object finds for every object name and inode
ContainsAll(rds, fp) ==
    [ n \in ObjectPaths, i \in Inodes \cup {0} |-> ContainsRows(rds, fp, n, i) ]

\* C18: frame of invalidate. A step by which the holder of a fingerprint
\* changes the catalog marks entries of the fingerprint expired and does
\* nothing else: no catalog row and no RDS row goes, no entry outside the
\* fingerprint changes, and load and contains_object on the fingerprint
\* find after it what they found before.
C18_InvalidateFrame ==
    [][ \A t \in Threads :
          (pc[t] = "done" /\ pc'[t] = "used" /\ RDS_catalog' # RDS_catalog) =>
            LET fp == RDS_fingerprint[t]
            IN  /\ \A c \in RDS_catalog :
                      IF c.rds_id \in FingerprintIds(fp)
                      THEN [c EXCEPT !.expired = 1] \in RDS_catalog'
                      ELSE c \in RDS_catalog'
                /\ Cardinality(RDS_catalog') = Cardinality(RDS_catalog)
                /\ RDS' = RDS
                /\ last_insert_id' = last_insert_id
                /\ RDS_fingerprint'[t] = fp
                /\ SelectDistinct(RDS', fp) = SelectDistinct(RDS, fp)
                /\ ContainsAll(RDS', fp) = ContainsAll(RDS, fp) ]_vars

\* a caller has invalidated its fingerprint: its entry is expired, an entry
\* outside the fingerprint is not, and the rows of the fingerprint are there
C18_Witness ==
    \E t \in Threads :
        /\ pc[t] = "used"
        /\ \E c \in RDS_catalog : c.rds_id \in FingerprintIds(RDS_fingerprint[t]) /\ c.expired = 1
        /\ \E c \in RDS_catalog : c.rds_id \notin FingerprintIds(RDS_fingerprint[t]) /\ c.expired = 0
        /\ SelectDistinct(RDS, RDS_fingerprint[t]) # {}

\* the (objectname, inode) pairs of the file handles load builds from the
\* fingerprint, for the order in which the rows reach the callback
LoadPairs(rds, fp, rows) == Pairs(AddEntries(EmptyHash, rows))

\* C19: contains_object agrees with load. A contains_object for name n and
\* inode i (0: unknown) returns nonzero exactly if a load of the same
\* fingerprint in the same state has a file handle under n (with inode i
\* if known), and what it returns is the inode of such a handle.
C19_ContainsAgrees ==
    [][ \A t \in Threads :
          (pc[t] = "done" /\ pc'[t] = "used") =>
            \A rows \in Orders(SelectDistinct(RDS, RDS_fingerprint[t])) :
               LET h == LoadPairs(RDS, RDS_fingerprint[t], rows)
               IN  \A n \in ObjectPaths, i \in Inodes \cup {0} :
                      tagsistant_RDS_contains_object(t, n, i) =>
                         /\ exists'[t] # 0 <=> \E p \in h : p[1] = n /\ (i # 0 => p[2] = i)
                         /\ exists'[t] # 0 =>
                               <<n, exists'[t]>> \in h /\ (i # 0 => exists'[t] = i) ]_vars

\* contains_object has found an object of the fingerprint whose name a
\* second object shares
C19_Witness ==
    \E t \in Threads :
        /\ pc[t] = "used"
        /\ exists[t] # 0
        /\ \E r \in DOMAIN RDS :
              /\ r.rds_id \in FingerprintIds(RDS_fingerprint[t])
              /\ r.inode = exists[t]
              /\ \E o \in Objects : o.objectname = r.objectname /\ o.inode # r.inode

\* the atoms a subquery key renders as negated: the elements that follow
\* a "-" element (the negated atoms of the queries are plain tags)
NegatedInKey(subquery) ==
    { subquery[k + 1] : k \in { j \in 1..(Len(subquery) - 1) : subquery[j] = "-" } }

\* C20: key and build agree on negations. Whenever PHASE 4 of the build is
\* about to delete the objects matching a negated atom of a conjunction,
\* that atom is one of those the subquery key of the conjunction renders
\* behind "-/"; so conjunctions with the same key have the same negations
\* applied.
C20_KeyMatchesBuild ==
    \A t \in Threads :
        pc[t] = "phase4" =>
            Heap[negated[t]].tag \in NegatedInKey(tagsistant_RDS_build_subquery(AndSet(t)))

\* what tells one atom from another: its tag id, its name, its triple
Atom(ptr) ==
    <<Heap[ptr].tag_id, Heap[ptr].tag, Heap[ptr].namespace, Heap[ptr].key,
      Heap[ptr].operator, Heap[ptr].value>>

\* the atoms of the main chain of a conjunction, in order
RECURSIVE MainAtoms(_)
MainAtoms(ptr) ==
    IF ptr = 0 THEN <<>> ELSE <<Atom(ptr)>> \o MainAtoms(Heap[ptr].next)

\* the atoms a conjunction negates
NegatedAtoms(and_set) ==
    { Atom(n) : n \in UNION { NegatedChain(Heap[m].negated) : m \in MainChain(and_set) } }

\* two conjunctions whose main-chain atoms or negated atoms differ
Differ(a, b) ==
    MainAtoms(a) # MainAtoms(b) \/ NegatedAtoms(a) # NegatedAtoms(b)

\* C21: the cache key is injective. Two callers that hold fingerprints never
\* hold the same RDS for two conjunctions whose atoms differ: prepare does
\* not answer one conjunction with the RDS built for a different one.
C21_KeyInjective ==
    \A t, u \in Threads :
        (Holding(t) /\ Holding(u)) =>
            \A i \in 1..Len(query[t]), j \in 1..Len(query[u]) :
                (/\ i <= Len(RDS_fingerprint[t])
                 /\ j <= Len(RDS_fingerprint[u])
                 /\ RDS_fingerprint[t][i] = RDS_fingerprint[u][j]) =>
                    ~Differ(query[t][i], query[u][j])

\* C22: no lost invalidation. When a caller that holds the fingerprint of a
\* query has changed the tags/objects catalog and then invalidates the
\* fingerprint, then after the invalidate no entry of a subquery of the query
\* that was built before the change is left unexpired, whatever the other
\* thread prepared in between.
C22_NoLostInvalidation ==
    [][ \A t \in Threads :
          (pc[t] = "mutated" /\ tagsistant_RDS_invalidate(t)) =>
            \A c \in RDS_catalog' :
                (/\ c.subquery \in Subqueries(query[t])
                 /\ c.rds_id \in built_before[t]) => c.expired = 1 ]_vars

=============================================================================
